---- MODULE Spec2Model ----
(***************************************************************************)
(* A model of the restify Server (lib/server.js): the route table, the     *)
(* global and pre-routing handler chains, route registration and removal,  *)
(* and the dispatch of a request through the pre-chain, _findRoute and the *)
(* matched route's chain.                                                  *)
(*                                                                         *)
(* Route, Request and Response (lib/route.js, lib/request.js,              *)
(* lib/response.js) are not among the sources; what the server calls on    *)
(* them is modelled from the specification's sections 3, 4.1, 4.2 and 4.5. *)
(***************************************************************************)
EXTENDS Integers, Sequences, FiniteSets, TLC

VARIABLES
  routes,      \* this.routes: the route table, in registration order
  chain,       \* this.chain: the global ("use") chain
  preChain,    \* this.preChain
  listeners,   \* EventEmitter listeners of the three fallback events
  nextId,      \* identities handed to Route objects so far
  reqs,        \* the requests handed to _request so far, by connection
  rmLog,       \* results of the rm() calls since the last registration
  threw,       \* the exception the last API call ended with, or "none"
  server       \* the constructor's options.version and options.rangeVersioning

vars == <<routes, chain, preChain, listeners, nextId, reqs, rmLog, threw, server>>

----------------------------------------------------------------------------
(* Bounds of the model *)

MaxRoutes == 3      \* Route objects created in one behaviour
MaxChain == 2       \* handlers in the global chain, and in the pre-chain
MaxListeners == 1   \* override listeners per fallback event

----------------------------------------------------------------------------
(* Values *)

\* An optional value (undefined or a value), as a sequence of length 0 or 1.
None == <<>>
Some(x) == <<x>>

\* A URL or URL template is its sequence of segments.  A segment of
\* ParamSegs is a named parameter in a template; "*" is the wildcard.
ParamSegs == {":id"}
Wildcard == "*"

\* A version is <<major, minor>>; a route without a version constraint has
\* version NoVersion (false in the source).
NoVersion == <<>>
V10 == <<1, 0>>
V11 == <<1, 1>>
V20 == <<2, 0>>

\* The verbs routes are registered for, and the methods of requests.
Verbs == {"GET", "POST", "PUT"}
Methods == {"GET", "DELETE", "OPTIONS"}

\* Handler units.  What a unit does when it is run is fixed by the unit:
\* it proceeds (next()), signals an error (next(err)) or writes a response.
Handlers == {"hNext", "hErr", "hSend"}
Behaviour(h) ==
  CASE h = "hNext" -> "next"
    [] h = "hErr" -> "err"
    [] OTHER -> "send"

\* The arguments of use(), pre() and the verb methods: functions, arrays
\* (nested to any depth) and values that are not functions.
Fn(h) == [k |-> "fn", h |-> h, a |-> <<>>]
Arr(s) == [k |-> "arr", h |-> "", a |-> s]
Val(v) == [k |-> "val", h |-> v, a |-> <<>>]

----------------------------------------------------------------------------
(* Helpers of the source *)

\* Mutant of NotIn: the indexOf test is dropped and every value is pushed.
NotInAlways(s, x) == TRUE

\* Array.prototype.indexOf(x) === -1
NotIn(s, x) == \A i \in 1..Len(s) : s[i] # x

\* Mutant of process: the elements are visited from the last to the first.
RECURSIVE processBackwards(_)
processBackwards(handlers) ==
  IF handlers = <<>> THEN <<>>
  ELSE LET h == Head(handlers) IN
       processBackwards(Tail(handlers))
         \o (IF h.k = "arr" THEN processBackwards(h.a) ELSE <<h.h>>)

\* process(handlers) of argsToChain: the typeof test of line 42 negates the
\* string typeof(h) before comparing, so it is false for every h and every
\* element that is not an array is pushed.
RECURSIVE process(_)
process(handlers) ==
  IF handlers = <<>> THEN <<>>
  ELSE LET h == Head(handlers) IN
       (IF h.k = "arr" THEN process(h.a) ELSE <<h.h>>) \o process(Tail(handlers))

\* args.length < 0 never holds, so argsToChain never throws here.
argsToChain(args) == process(args)

----------------------------------------------------------------------------
(* URL Matcher and Route predicates (specification 4.1, 4.2) *)

NoMatch == [ok |-> FALSE, params |-> {}]

\* match(UrlPattern, path): pairwise over the segments; a literal equals the
\* path segment, a parameter binds one segment, a trailing wildcard binds
\* all that remain (also none).
RECURSIVE match(_, _)
match(pattern, path) ==
  IF pattern = <<>> THEN
    IF path = <<>> THEN [ok |-> TRUE, params |-> {}] ELSE NoMatch
  ELSE IF Head(pattern) = Wildcard THEN
    [ok |-> TRUE, params |-> {<<Wildcard, path>>}]
  ELSE IF path = <<>> THEN NoMatch
  ELSE LET rest == match(Tail(pattern), Tail(path)) IN
    IF ~rest.ok THEN NoMatch
    ELSE IF Head(pattern) \in ParamSegs THEN
      [ok |-> TRUE, params |-> rest.params \cup {<<Head(pattern), <<Head(path)>>>>}]
    ELSE IF Head(pattern) = Head(path) THEN rest
    ELSE NoMatch

\* Route.matchesUrl(req): the parameters, or no match.  Nothing matches a
\* request object whose url is undefined.
matchesUrl(r, req) ==
  IF req.url = None THEN NoMatch ELSE match(r.url, req.url[1])

\* Route.matchesMethod(req)
matchesMethod(r, req) == req.method = r.method

\* One version against a constraint: the same value, or with range
\* versioning the same major and a minor not below the constraint's.
satisfies(v, constraint, range) ==
  IF range THEN v[1] = constraint[1] /\ v[2] >= constraint[2]
  ELSE v = constraint

\* Route.matchesVersion(req)
matchesVersion(r, req) ==
  \/ r.version = NoVersion
  \/ \E i \in 1..Len(req.versions) :
       satisfies(req.versions[i], r.version, r.rangeVersioning)

\* new Route(options)
Route(id, method, options, handlers, serverVersion, serverRange) ==
  [ id |-> id,
    name |-> IF options.name # None THEN [auto |-> 0, s |-> options.name[1]]
             ELSE [auto |-> id, s |-> ""],
    method |-> method,
    methods |-> <<method>>,
    url |-> (IF options.path # None THEN options.path ELSE options.url)[1],
    version |-> IF options.version # NoVersion THEN options.version
                ELSE serverVersion,
    rangeVersioning |-> options.rangeVersioning \/ serverRange,
    chain |-> handlers ]

\* Route.use(chain)
RouteUse(r, hs) == [r EXCEPT !.chain = @ \o hs]

----------------------------------------------------------------------------
(* Response and the fallback events *)

\* Response.send(x): one response write
send(q, what) == [q EXCEPT !.res.sent = Append(@, what)]

Events == {"NotFound", "MethodNotAllowed", "VersionNotAllowed"}

defaultHandler(event) ==
  CASE event = "NotFound" -> "default404Handler"
    [] event = "MethodNotAllowed" -> "default405Handler"
    [] OTHER -> "defaultBadVersionHandler"

default404Handler(q) == send(q, "ResourceNotFoundError")

\* Mutant of default405Handler: OPTIONS is answered like any other method.
default405HandlerNoOptions(q, methods) ==
  send([q EXCEPT !.res.allow = Some(methods)], "BadMethodError")

default405Handler(q, methods) ==
  LET h == [q EXCEPT !.res.allow = Some(methods)] IN
  IF q.method = "OPTIONS" THEN send(h, "200") ELSE send(h, "BadMethodError")

defaultBadVersionHandler(q, versions) == send(q, "InvalidVersionError")

\* A listener is called with (req, res, arg).  A listener the application
\* registered answers the request itself.
call(fn, q, arg) ==
  CASE fn = "default404Handler" -> default404Handler(q)
    [] fn = "default405Handler" -> default405Handler(q, arg)
    [] fn = "defaultBadVersionHandler" -> defaultBadVersionHandler(q, arg)
    [] OTHER -> send(q, "Override")

\* EventEmitter.emit: the listeners registered at this moment, in order
RECURSIVE callAll(_, _, _)
callAll(ls, q, arg) ==
  IF ls = <<>> THEN q ELSE callAll(Tail(ls), call(Head(ls).fn, q, arg), arg)

\* Mutant of emitFallback: the default responder is registered with on()
\* instead of once(), so it is still registered after the emit.
emitFallbackOn(ls, event, q, arg) ==
  LET now == IF ls[event] = <<>>
             THEN <<[fn |-> defaultHandler(event), once |-> FALSE]>>
             ELSE ls[event]
      e == [event |-> event, arg |-> arg, heard |-> [j \in 1..Len(now) |-> now[j].fn]]
  IN [ q |-> callAll(now, [q EXCEPT !.emitted = Append(@, e)], arg),
       listeners |-> [ls EXCEPT ![event] = SelectSeq(now, LAMBDA l : ~l.once)] ]

\* if (!this.listeners(e).length) this.once(e, default); this.emit(e, ...):
\* the request after the listeners ran, and the listeners left registered
\* (a once-listener is removed as it is called).
emitFallback(ls, event, q, arg) ==
  LET now == IF ls[event] = <<>>
             THEN <<[fn |-> defaultHandler(event), once |-> TRUE]>>
             ELSE ls[event]
      e == [event |-> event, arg |-> arg, heard |-> [j \in 1..Len(now) |-> now[j].fn]]
  IN [ q |-> callAll(now, [q EXCEPT !.emitted = Append(@, e)], arg),
       listeners |-> [ls EXCEPT ![event] = SelectSeq(now, LAMBDA l : ~l.once)] ]

----------------------------------------------------------------------------
(* Server.prototype._findRoute *)

\* Mutant of scan: the break of line 472 is missing, so the last route that
\* fully matches is the one returned.
RECURSIVE scanOn(_, _, _, _, _, _)
scanOn(rs, req, i, methods, versions, found) ==
  IF i > Len(rs) THEN
    [route |-> found.route, params |-> found.params,
     methods |-> methods, versions |-> versions]
  ELSE LET r == rs[i]
           params == matchesUrl(r, req)
       IN
    IF params.ok THEN
      IF matchesMethod(r, req) THEN
        IF matchesVersion(r, req) THEN
          scanOn(rs, req, i + 1, methods, versions,
                 [route |-> i, params |-> params.params])
        ELSE scanOn(rs, req, i + 1, methods,
                    IF r.version # NoVersion /\ NotIn(versions, r.version)
                    THEN Append(versions, r.version) ELSE versions, found)
      ELSE scanOn(rs, req, i + 1,
                  IF NotIn(methods, r.method) THEN Append(methods, r.method)
                  ELSE methods,
                  versions, found)
    ELSE scanOn(rs, req, i + 1, methods, versions, found)

scanNoBreak(rs, req, i, methods, versions) ==
  scanOn(rs, req, i, methods, versions, [route |-> 0, params |-> {}])

\* Mutant of scan: matchesVersion is not asked, so the first route matching
\* path and method is returned.
RECURSIVE scanIgnoreVersion(_, _, _, _, _)
scanIgnoreVersion(rs, req, i, methods, versions) ==
  IF i > Len(rs) THEN
    [route |-> 0, params |-> {}, methods |-> methods, versions |-> versions]
  ELSE LET r == rs[i]
           params == matchesUrl(r, req)
       IN
    IF params.ok /\ matchesMethod(r, req) THEN
      [route |-> i, params |-> params.params,
       methods |-> methods, versions |-> versions]
    ELSE scanIgnoreVersion(rs, req, i + 1,
                           IF params.ok /\ NotIn(methods, r.method)
                           THEN Append(methods, r.method) ELSE methods,
                           versions)

\* Mutant of scan: params keeps the result of the first matchesUrl that
\* succeeded, also when that route is passed over for its method or version.
RECURSIVE scanFirstParams(_, _, _, _, _, _)
scanFirstParams(rs, req, i, methods, versions, first) ==
  IF i > Len(rs) THEN
    [route |-> 0, params |-> {}, methods |-> methods, versions |-> versions]
  ELSE LET r == rs[i]
           params == matchesUrl(r, req)
           kept == IF first = None /\ params.ok THEN Some(params.params) ELSE first
       IN
    IF params.ok THEN
      IF matchesMethod(r, req) THEN
        IF matchesVersion(r, req) THEN
          [route |-> i, params |-> kept[1],
           methods |-> methods, versions |-> versions]
        ELSE scanFirstParams(rs, req, i + 1, methods,
                             IF r.version # NoVersion /\ NotIn(versions, r.version)
                             THEN Append(versions, r.version) ELSE versions, kept)
      ELSE scanFirstParams(rs, req, i + 1,
                           IF NotIn(methods, r.method) THEN Append(methods, r.method)
                           ELSE methods,
                           versions, kept)
    ELSE scanFirstParams(rs, req, i + 1, methods, versions, kept)

scanStaleParams(rs, req, i, methods, versions) ==
  scanFirstParams(rs, req, i, methods, versions, None)

\* The loop of lines 465-482 from index i on, with the accumulators so far:
\* the index of the route it breaks at (0 if it runs to the end), the
\* params of that route's matchesUrl, and methods and versions.
RECURSIVE scan(_, _, _, _, _)
scan(rs, req, i, methods, versions) ==
  IF i > Len(rs) THEN
    [route |-> 0, params |-> {}, methods |-> methods, versions |-> versions]
  ELSE LET r == rs[i]
           params == matchesUrl(r, req)
       IN
    IF params.ok THEN
      IF matchesMethod(r, req) THEN
        IF matchesVersion(r, req) THEN
          [route |-> i, params |-> params.params,
           methods |-> methods, versions |-> versions]
        ELSE scan(rs, req, i + 1, methods,
                  IF r.version # NoVersion /\ NotIn(versions, r.version)
                  THEN Append(versions, r.version) ELSE versions)
      ELSE scan(rs, req, i + 1,
                IF NotIn(methods, r.method) THEN Append(methods, r.method)
                ELSE methods,
                versions)
    ELSE scan(rs, req, i + 1, methods, versions)

\* Mutant of fallback: the method mismatch is tested before the version
\* mismatch.
fallbackMethodsFirst(methods, versions) ==
  IF methods # <<>> THEN [event |-> "MethodNotAllowed", arg |-> methods]
  ELSE IF versions # <<>> THEN [event |-> "VersionNotAllowed", arg |-> versions]
  ELSE [event |-> "NotFound", arg |-> <<>>]

\* Which fallback event lines 492-507 emit, and its argument
fallback(methods, versions) ==
  IF versions # <<>> THEN [event |-> "VersionNotAllowed", arg |-> versions]
  ELSE IF methods # <<>> THEN [event |-> "MethodNotAllowed", arg |-> methods]
  ELSE [event |-> "NotFound", arg |-> <<>>]

\* _findRoute(req, res): the request afterwards, the listeners afterwards,
\* and the index of the returned route (0 for false).  res.methods of a
\* matched request is the route's own methods array (ref names the route).
_findRoute(rs, ls, q) ==
  LET s == scan(rs, q, 1, <<>>, <<>>) IN
  IF s.route # 0 THEN
    [ q |-> [q EXCEPT !.resolved = TRUE,
                      !.route = rs[s.route].id,
                      !.params = Some(s.params),
                      !.res.methods = rs[s.route].methods,
                      !.res.ref = rs[s.route].id,
                      !.res.version = rs[s.route].version],
      listeners |-> ls,
      route |-> s.route ]
  ELSE
    LET f == fallback(s.methods, s.versions)
        e == emitFallback(ls, f.event,
                          [q EXCEPT !.resolved = TRUE,
                                    !.res.methods = s.methods,
                                    !.res.versions = s.versions],
                          f.arg)
    IN [q |-> e.q, listeners |-> e.listeners, route |-> 0]

----------------------------------------------------------------------------
(* Server.prototype._request and the handler chain executor *)

\* Route.run(req, res) starts the route's chain: its first unit is invoked,
\* and a chain without units is over at once.
run(r, q) ==
  IF r.chain = <<>> THEN [q EXCEPT !.pc = "done", !.run = <<>>]
  ELSE [q EXCEPT !.pc = "route", !.run = r.chain, !.i = 1, !.routeRan = 1]

\* The callback async.series ends with (lines 441-452), without an error
routing(rs, ls, q) ==
  LET f == _findRoute(rs, ls, q) IN
  IF f.route = 0 THEN [q |-> [f.q EXCEPT !.pc = "done"], listeners |-> f.listeners]
  ELSE [q |-> run(rs[f.route], f.q), listeners |-> f.listeners]

\* The request object _request builds, before async.series starts
newRequest(method, path, versions, pre) ==
  [ method |-> method, url |-> Some(path), versions |-> versions,
    params |-> None, before |-> pre,
    pc |-> "pre", i |-> 0, run |-> <<>>, preRan |-> 0, routeRan |-> 0,
    resolved |-> FALSE, route |-> 0, emitted |-> <<>>,
    res |-> [ methods |-> <<>>, ref |-> 0, version |-> NoVersion,
              versions |-> <<>>, allow |-> None, sent |-> <<>> ] ]

\* Mutant of advance: the series calls back as soon as its first task has
\* called back, and the tasks after it are not run.
advanceEager(rs, ls, q) ==
  IF q.i = 0 /\ q.before # <<>>
  THEN [q |-> [q EXCEPT !.i = 1, !.preRan = 1], listeners |-> ls]
  ELSE routing(rs, ls, q)

\* async.series moves to task i + 1 of before: a pre-chain handler is
\* invoked, or the task pushed at line 437 calls back at once and the
\* series ends in routing.
advance(rs, ls, q) ==
  IF q.i + 1 <= Len(q.before)
  THEN [q |-> [q EXCEPT !.i = q.i + 1, !.preRan = q.preRan + 1], listeners |-> ls]
  ELSE routing(rs, ls, q)

----------------------------------------------------------------------------
(* The state after the constructor (lines 105-193) *)

\* options.version is left out (this.version = false); range versioning is
\* on or off.
ServerOptions == [version : {NoVersion}, rangeVersioning : BOOLEAN]

Init ==
  /\ routes = <<>>
  /\ chain = <<>>
  /\ preChain = <<>>
  /\ listeners = [e \in Events |-> <<>>]
  /\ nextId = 0
  /\ reqs = <<>>
  /\ rmLog = <<>>
  /\ threw = "none"
  /\ server \in ServerOptions

----------------------------------------------------------------------------
(* Registration and removal *)

\* Lines 401-406: every route of the table that matches the new route's
\* options.url (as a request url) records the new method.
backPatch(rs, method, options) ==
  [j \in 1..Len(rs) |->
     IF matchesUrl(rs[j], [url |-> options.url]).ok /\ NotIn(rs[j].methods, method)
     THEN [rs[j] EXCEPT !.methods = Append(@, method)]
     ELSE rs[j]]

\* res.methods of a matched request is the methods array of its route: a
\* push onto that array shows in the request.
aliased(rs, q) ==
  IF \E j \in 1..Len(rs) : rs[j].id = q.res.ref
  THEN LET j == CHOOSE j \in 1..Len(rs) : rs[j].id = q.res.ref
       IN [q EXCEPT !.res.methods = rs[j].methods]
  ELSE q

\* The handler chain a new route is built with (lines 376-379)
routeChain(global, handlers) == global \o argsToChain(handlers)

_addRoute(method, options, handlers) ==
  LET route == Route(nextId + 1, method, options, routeChain(chain, handlers),
                     server.version, server.rangeVersioning)
      patched == backPatch(routes, method, options)
  IN /\ routes' = Append(patched, route)
     /\ nextId' = nextId + 1
     /\ reqs' = [k \in DOMAIN reqs |-> aliased(patched, reqs[k])]
     /\ rmLog' = <<>>
     /\ threw' = "none"
     /\ UNCHANGED <<chain, preChain, listeners, server>>

\* Server.prototype[method](options, ...handlers), lines 289-302.  args are
\* the arguments after options.
verb(method, options, args) ==
  /\ nextId < MaxRoutes
  /\ IF args = <<>>
     THEN /\ threw' = "Error"
          /\ UNCHANGED <<routes, chain, preChain, listeners, nextId, reqs, rmLog, server>>
     ELSE _addRoute(method, options, args)

\* Does rm's argument name routes[j]: its name, or the route itself
named(r, arg) ==
  \/ arg.name # None /\ r.name = arg.name[1]
  \/ arg.route = r.id

\* Mutant of removed: the loop does not return at the first route it
\* splices out, so every route the argument names is removed.
removedAll(rs, arg) ==
  [rs |-> SelectSeq(rs, LAMBDA r : ~named(r, arg)),
   result |-> \E j \in 1..Len(rs) : named(rs[j], arg)]

removed(rs, arg) ==
  IF \E j \in 1..Len(rs) : named(rs[j], arg)
  THEN LET j == CHOOSE j \in 1..Len(rs) :
                  named(rs[j], arg) /\ \A l \in 1..(j - 1) : ~named(rs[l], arg)
       IN [rs |-> SubSeq(rs, 1, j - 1) \o SubSeq(rs, j + 1, Len(rs)), result |-> TRUE]
  ELSE [rs |-> rs, result |-> FALSE]

\* The last two rm calls (the calls since the last registration)
logged(log, entry) ==
  IF Len(log) < 2 THEN Append(log, entry) ELSE <<log[2], entry>>

rm(arg) ==
  LET out == removed(routes, arg) IN
  /\ routes' = out.rs
  /\ rmLog' = logged(rmLog, [arg |-> arg, result |-> out.result])
  /\ threw' = "none"
  /\ UNCHANGED <<chain, preChain, listeners, nextId, reqs, server>>

use(args) ==
  LET hs == argsToChain(args) IN
  /\ Len(chain) + Len(hs) <= MaxChain
  /\ chain' = chain \o hs
  /\ routes' = [j \in 1..Len(routes) |->
                  IF hs # <<>> THEN RouteUse(routes[j], hs) ELSE routes[j]]
  /\ threw' = "none"
  /\ UNCHANGED <<preChain, listeners, nextId, reqs, rmLog, server>>

pre(args) ==
  LET hs == argsToChain(args) IN
  /\ Len(preChain) + Len(hs) <= MaxChain
  /\ preChain' = preChain \o hs
  /\ threw' = "none"
  /\ UNCHANGED <<routes, chain, listeners, nextId, reqs, rmLog, server>>

\* server.on(event, listener): the application overrides a fallback responder
on(event) ==
  /\ Len(listeners[event]) < MaxListeners
  /\ listeners' = [listeners EXCEPT
                     ![event] = Append(@, [fn |-> "override", once |-> FALSE])]
  /\ UNCHANGED <<routes, chain, preChain, nextId, reqs, rmLog, threw, server>>

----------------------------------------------------------------------------
(* Requests *)

\* Mutant of _request: the resolve records the request's method in the
\* methods of every route of the table.
_requestTouching(c, method, path, versions) ==
  /\ c \notin DOMAIN reqs
  /\ LET a == advance(routes, listeners, newRequest(method, path, versions, preChain))
     IN /\ reqs' = [k \in DOMAIN reqs \cup {c} |-> IF k = c THEN a.q ELSE reqs[k]]
        /\ listeners' = a.listeners
  /\ routes' = [j \in 1..Len(routes) |->
                  IF NotIn(routes[j].methods, method)
                  THEN [routes[j] EXCEPT !.methods = Append(@, method)]
                  ELSE routes[j]]
  /\ UNCHANGED <<chain, preChain, nextId, rmLog, threw, server>>

\* The http server's 'request' event on connection c: _request builds the
\* request, copies the pre-chain into before and starts async.series.
_request(c, method, path, versions) ==
  /\ c \notin DOMAIN reqs
  /\ LET a == advance(routes, listeners, newRequest(method, path, versions, preChain))
     IN /\ reqs' = [k \in DOMAIN reqs \cup {c} |-> IF k = c THEN a.q ELSE reqs[k]]
        /\ listeners' = a.listeners
  /\ UNCHANGED <<routes, chain, preChain, nextId, rmLog, threw, server>>

\* Mutant of preHandler: the series callback does not return on an error
\* (line 442), so the error is sent and routing goes on.
preHandlerErrorIgnored(k) ==
  /\ reqs[k].pc = "pre"
  /\ LET q == reqs[k]
         b == Behaviour(q.before[q.i])
         a == advance(routes, listeners, IF b = "err" THEN send(q, "HandlerError") ELSE q)
     IN IF b \in {"next", "err"}
        THEN /\ reqs' = [reqs EXCEPT ![k] = a.q]
             /\ listeners' = a.listeners
        ELSE /\ reqs' = [reqs EXCEPT ![k] = [send(q, "HandlerResponse") EXCEPT !.pc = "done"]]
             /\ UNCHANGED listeners
  /\ UNCHANGED <<routes, chain, preChain, nextId, rmLog, threw, server>>

\* The pre-chain handler invoked for request k ends: it called back without
\* an error, called back with one, or wrote the response and never calls back.
preHandler(k) ==
  /\ reqs[k].pc = "pre"
  /\ LET q == reqs[k]
         b == Behaviour(q.before[q.i])
         a == advance(routes, listeners, q)
     IN CASE b = "next" -> /\ reqs' = [reqs EXCEPT ![k] = a.q]
                           /\ listeners' = a.listeners
          [] b = "err" -> /\ reqs' = [reqs EXCEPT ![k] = [send(q, "HandlerError") EXCEPT !.pc = "done"]]
                          /\ UNCHANGED listeners
          [] OTHER -> /\ reqs' = [reqs EXCEPT ![k] = [send(q, "HandlerResponse") EXCEPT !.pc = "done"]]
                      /\ UNCHANGED listeners
  /\ UNCHANGED <<routes, chain, preChain, nextId, rmLog, threw, server>>

\* The handler of the matched route's chain invoked for request k ends
\* (Handler Chain Executor, specification 4.5).
routeHandler(k) ==
  /\ reqs[k].pc = "route"
  /\ LET q == reqs[k]
         b == Behaviour(q.run[q.i])
     IN reqs' = [reqs EXCEPT ![k] =
          CASE b = "next" -> IF q.i < Len(q.run)
                             THEN [q EXCEPT !.i = q.i + 1, !.routeRan = q.routeRan + 1]
                             ELSE [q EXCEPT !.pc = "done"]
            [] b = "err" -> [send(q, "HandlerError") EXCEPT !.pc = "done"]
            [] OTHER -> [send(q, "HandlerResponse") EXCEPT !.pc = "done"]]
  /\ UNCHANGED <<routes, chain, preChain, listeners, nextId, rmLog, threw, server>>

----------------------------------------------------------------------------
(* Inputs *)

Patterns == {<<":id">>, <<"x", "*">>}
Paths == {<<"x">>, <<"y">>}
ReqVersions == {<<>>, <<V10>>, <<V11>>, <<V20>>}

\* The connections a request arrives on
Connections == {"c1"}

\* server.get('/x', ...)
StringOption(p) ==
  [path |-> None, url |-> Some(p), name |-> None,
   version |-> NoVersion, rangeVersioning |-> FALSE]

\* server.get({url: '/x', version: v}, ...)
UrlOption(p, v) ==
  [path |-> None, url |-> Some(p), name |-> None,
   version |-> v, rangeVersioning |-> FALSE]

\* server.get({path: '/x', name: n}, ...)
PathOption(p, n) ==
  [path |-> Some(p), url |-> None, name |-> n,
   version |-> NoVersion, rangeVersioning |-> FALSE]

----------------------------------------------------------------------------
(* Routing: routes are registered while the server is set up, and then a   *)
(* request is resolved against the table.                                  *)

Next ==
  \/ /\ DOMAIN reqs = {}
     /\ \E m \in {"GET", "POST"}, p \in Patterns, v \in {NoVersion, V10, V20} :
          verb(m, UrlOption(p, v), <<Fn("hSend")>>)
  \/ \E c \in Connections, m \in Methods, p \in Paths, vs \in ReqVersions :
       _request(c, m, p, vs)
  \/ \E k \in DOMAIN reqs : routeHandler(k)

Spec == Init /\ [][Next]_vars

----------------------------------------------------------------------------
(* Dispatch: handlers are installed with pre(), use() and get() (one GET    *)
(* route for a path template), fallback responders are overridden, and     *)
(* requests run through the pre-chain, the resolve and the matched route's *)
(* chain.                                                                  *)

NextDispatch ==
  \/ \E h \in Handlers : pre(<<Fn(h)>>)
  \/ \E h \in {"hNext", "hSend"} : use(<<Fn(h)>>)
  \/ \E p \in {<<"x", "*">>}, h \in Handlers :
       /\ \A j \in 1..Len(routes) : routes[j].url # p
       /\ verb("GET", StringOption(p), <<Fn(h)>>)
  \/ \E e \in {"NotFound", "MethodNotAllowed"} : on(e)
  \/ \E c \in Connections, m \in {"GET", "DELETE"}, p \in Paths :
       _request(c, m, p, <<>>)
  \/ \E k \in DOMAIN reqs : preHandler(k)
  \/ \E k \in DOMAIN reqs : routeHandler(k)

\* The server is constructed without options.rangeVersioning
InitDefault == Init /\ ~server.rangeVersioning

SpecDispatch == InitDefault /\ [][NextDispatch]_vars

----------------------------------------------------------------------------
(* Registration: routes are registered by string and by options, with and  *)
(* without a name, and removed by name and by route object.                *)

Names == {"a"}

\* rm('a') and rm(route)
RmArgs ==
  {[name |-> Some([auto |-> 0, s |-> n]), route |-> 0] : n \in Names}
    \cup {[name |-> None, route |-> id] : id \in 1..MaxRoutes}

NextRegister ==
  \/ \E m \in {"GET", "POST"}, p \in Patterns :
       verb(m, StringOption(p), <<Fn("hSend")>>)
  \/ \E m \in {"GET", "POST"}, p \in Patterns, n \in {None} \cup {Some(a) : a \in Names} :
       verb(m, PathOption(p, n), <<Fn("hSend")>>)
  \/ \E arg \in RmArgs : rm(arg)

SpecRegister == InitDefault /\ [][NextRegister]_vars

----------------------------------------------------------------------------
(* Overriding: routes are registered while the server is set up; fallback  *)
(* responders are overridden at any time, between requests that arrive on  *)
(* two connections.                                                        *)

LiveConnections == {"c1", "c2"}

NextOverride ==
  \/ /\ DOMAIN reqs = {}
     /\ \E v \in {NoVersion, V10} :
          verb("GET", UrlOption(<<"x", "*">>, v), <<Fn("hSend")>>)
  \/ \E e \in Events : on(e)
  \/ \E c \in LiveConnections, m \in {"GET", "DELETE"}, vs \in {<<>>, <<V20>>} :
       _request(c, m, <<"x">>, vs)
  \/ \E k \in DOMAIN reqs : routeHandler(k)

SpecOverride == InitDefault /\ [][NextOverride]_vars

----------------------------------------------------------------------------
(* Live server: routes are registered and removed while requests arrive on *)
(* two connections.                                                        *)

\* rm(route) with the route object of the first registration
LiveRmArgs == {[name |-> None, route |-> 1]}

NextLive ==
  \/ \E m \in {"GET", "POST"}, v \in {NoVersion, V10} :
       verb(m, UrlOption(<<"x", "*">>, v), <<Fn("hSend")>>)
  \/ \E arg \in LiveRmArgs : rm(arg)
  \/ \E c \in LiveConnections, m \in {"GET", "DELETE"}, vs \in {<<>>, <<V20>>} :
       _request(c, m, <<"x">>, vs)
  \/ \E k \in DOMAIN reqs : routeHandler(k)

SpecLive == InitDefault /\ [][NextLive]_vars

----------------------------------------------------------------------------
(* Chains: use(), pre() and get() are called with functions, nested arrays *)
(* of functions, empty arrays and values that are not functions.           *)

\* use(f), use('s')
UseInputs == { <<Fn("hNext")>>, <<Val("s")>> }

\* pre([[g], f]), pre('s')
PreInputs == { <<Arr(<<Arr(<<Fn("hErr")>>), Fn("hNext")>>)>>, <<Val("s")>> }

\* get('/x/*', [f, [g]], h), get('/x/*', []), get('/x/*', [f, 's']),
\* get('/x/*')
VerbInputs ==
  { <<Arr(<<Fn("hNext"), Arr(<<Fn("hErr")>>)>>), Fn("hSend")>>,
    <<Arr(<<>>)>>,
    <<Arr(<<Fn("hNext"), Val("s")>>)>>,
    <<>> }

ArgInputs == UseInputs \cup PreInputs \cup VerbInputs

NextChains ==
  \/ \E a \in UseInputs : use(a)
  \/ \E a \in PreInputs : pre(a)
  \/ \E a \in VerbInputs : verb("GET", StringOption(<<"x", "*">>), a)

SpecChains == InitDefault /\ [][NextChains]_vars

----------------------------------------------------------------------------
(* Vocabulary of the properties *)

toSet(s) == {s[j] : j \in 1..Len(s)}
noDuplicates(s) == \A a, b \in 1..Len(s) : s[a] = s[b] => a = b

PathMatch(r, q) == matchesUrl(r, q).ok
MethodMatch(r, q) == PathMatch(r, q) /\ matchesMethod(r, q)
FullMatch(r, q) == MethodMatch(r, q) /\ matchesVersion(r, q)

\* The routes of table rs that fully match q
fullMatches(rs, q) == {j \in 1..Len(rs) : FullMatch(rs[j], q)}

\* Request k is resolved by this step (_findRoute ran for it)
Resolving(k) ==
  /\ k \in DOMAIN reqs'
  /\ reqs'[k].resolved
  /\ k \in DOMAIN reqs => ~reqs[k].resolved

\* The events emitted for a request
events(q) == [j \in 1..Len(q.emitted) |-> q.emitted[j].event]

\* The tables with two neighbouring routes of rs exchanged.  Every order of
\* a table is a table of its own and is reached from it by such exchanges,
\* so the exchanges at every table cover every order.
orders(rs) ==
  {[rs EXCEPT ![a] = rs[a + 1], ![a + 1] = rs[a]] : a \in 1..(Len(rs) - 1)}

----------------------------------------------------------------------------
(* C1 *)

\* C1: _findRoute returns the earliest-registered route that matches the
\* request's path, method and version together, and returns a route only
\* if it matches so; it never returns a later route when an earlier one
\* fully matches.
C1_EarliestFullMatch ==
  [][\A k \in DOMAIN reqs' : Resolving(k) =>
       LET q == reqs'[k]
           m == fullMatches(routes, q)
       IN IF m = {} THEN q.route = 0
          ELSE /\ \E j \in m : /\ \A l \in m : j <= l
                               /\ q.route = routes[j].id
               /\ q.emitted = <<>>]_vars

\* a request resolved to a route while a later route of the table matches
\* it fully as well
C1_Witness ==
  \E k \in DOMAIN reqs : \E j, l \in 1..Len(routes) :
    /\ j < l
    /\ reqs[k].route = routes[j].id
    /\ FullMatch(routes[j], reqs[k])
    /\ FullMatch(routes[l], reqs[k])

----------------------------------------------------------------------------
(* C2 *)

\* What the scan accumulates when no route fully matches, as sets
accVersions(rs, q) ==
  {rs[j].version : j \in {l \in 1..Len(rs) :
     MethodMatch(rs[l], q) /\ ~matchesVersion(rs[l], q) /\ rs[l].version # NoVersion}}
accMethods(rs, q) ==
  {rs[j].method : j \in {l \in 1..Len(rs) : PathMatch(rs[l], q) /\ ~matchesMethod(rs[l], q)}}

\* C2: when no route fully matches, exactly one fallback event is emitted:
\* VersionNotAllowed if versions were accumulated, else MethodNotAllowed if
\* methods were accumulated, else NotFound; when a route fully matches no
\* fallback event is emitted.
C2_FallbackPrecedence ==
  [][\A k \in DOMAIN reqs' : Resolving(k) =>
       LET q == reqs'[k] IN
       IF fullMatches(routes, q) # {} THEN q.emitted = <<>>
       ELSE events(q) =
              IF accVersions(routes, q) # {} THEN <<"VersionNotAllowed">>
              ELSE IF accMethods(routes, q) # {} THEN <<"MethodNotAllowed">>
              ELSE <<"NotFound">>]_vars

\* a version mismatch was signalled although methods were accumulated too
C2_Witness ==
  \E k \in DOMAIN reqs :
    /\ events(reqs[k]) = <<"VersionNotAllowed">>
    /\ reqs[k].res.methods # <<>>
    /\ reqs[k].res.versions # <<>>

----------------------------------------------------------------------------
(* C3 *)

\* C3: the methods delivered with a MethodNotAllowed event are, without
\* duplicates, the methods of the routes of the table whose path matches
\* the request, and the scan of the table with any two neighbouring routes
\* exchanged accumulates the same set.
C3_AllowedMethods ==
  [][\A k \in DOMAIN reqs' : Resolving(k) =>
       LET q == reqs'[k] IN
       events(q) = <<"MethodNotAllowed">> =>
         /\ noDuplicates(q.emitted[1].arg)
         /\ toSet(q.emitted[1].arg) =
              {routes[j].method : j \in {l \in 1..Len(routes) : PathMatch(routes[l], q)}}
         /\ \A t \in orders(routes) :
              toSet(scan(t, q, 1, <<>>, <<>>).methods) = toSet(q.emitted[1].arg)]_vars

\* a method mismatch over three path-matching routes of two methods
C3_Witness ==
  \E k \in DOMAIN reqs :
    /\ events(reqs[k]) = <<"MethodNotAllowed">>
    /\ Len(reqs[k].emitted[1].arg) = 2
    /\ Cardinality({j \in 1..Len(routes) : PathMatch(routes[j], reqs[k])}) = 3

----------------------------------------------------------------------------
(* C4 *)

\* Routes a and b share method and path template and are constrained to
\* different versions
versionedPair(a, b) ==
  /\ a.method = b.method
  /\ a.url = b.url
  /\ a.version # NoVersion
  /\ b.version # NoVersion
  /\ a.version # b.version

\* C4: of routes sharing method and path and constrained to different
\* versions, a request satisfied by one of them (and fully matched by no
\* other route) resolves to that one, registered first or not; a request
\* that matches routes by path and method and none by version gets a
\* VersionNotAllowed event whose versions are, without duplicates, the
\* version constraints of the routes matching it by path and method.
C4_VersionSelection ==
  [][\A k \in DOMAIN reqs' : Resolving(k) =>
       LET q == reqs'[k]
           pm == {j \in 1..Len(routes) : MethodMatch(routes[j], q)}
       IN /\ \A j \in pm : \A l \in pm :
               ( /\ versionedPair(routes[j], routes[l])
                 /\ fullMatches(routes, q) = {j} )
               => q.route = routes[j].id
          /\ (pm # {} /\ fullMatches(routes, q) = {}) =>
               /\ events(q) = <<"VersionNotAllowed">>
               /\ noDuplicates(q.emitted[1].arg)
               /\ toSet(q.emitted[1].arg) = {routes[j].version : j \in pm}]_vars

\* the later-registered of two versioned routes answered a request, and
\* another request was refused with both versions
C4_Witness ==
  /\ \E k \in DOMAIN reqs : \E j, l \in 1..Len(routes) :
       /\ j < l
       /\ versionedPair(routes[j], routes[l])
       /\ MethodMatch(routes[j], reqs[k])
       /\ reqs[k].route = routes[l].id

\* a request acceptable to neither of two versioned routes was refused with
\* both versions
C4_WitnessRefused ==
  \E k \in DOMAIN reqs :
    /\ events(reqs[k]) = <<"VersionNotAllowed">>
    /\ toSet(reqs[k].emitted[1].arg) = {V10, V20}

----------------------------------------------------------------------------
(* C5 *)

----------------------------------------------------------------------------
(* C6 *)

\* Request q ended in the error of a pre-chain handler
preErrored(q) ==
  /\ q.pc = "done"
  /\ q.res.sent = <<"HandlerError">>
  /\ ~q.resolved
  /\ q.route = 0
  /\ q.routeRan = 0
  /\ q.emitted = <<>>
  /\ q.params = None

\* C6: when a pre-chain handler of a request signals an error, the error is
\* sent as the response, _findRoute is not performed for the request, no
\* later pre-chain handler and no route handler is invoked, no fallback
\* event is emitted and req.params stays unset; and nothing of this changes
\* afterwards.
C6_PreChainError ==
  [][\A k \in DOMAIN reqs :
       LET q == reqs[k] IN
       /\ ( /\ q.pc = "pre"
            /\ Behaviour(q.before[q.i]) = "err"
            /\ reqs'[k] # q )
          => /\ preErrored(reqs'[k])
             /\ reqs'[k].preRan = q.preRan
             /\ reqs'[k].i = q.i
       /\ ( /\ preErrored(q)
            /\ q.i >= 1
            /\ Behaviour(q.before[q.i]) = "err" )
          => reqs'[k] = q]_vars

\* the first of two pre-chain handlers failed a request that a route of the
\* table matches
C6_Witness ==
  \E k \in DOMAIN reqs :
    /\ preErrored(reqs[k])
    /\ reqs[k].preRan = 1
    /\ Len(reqs[k].before) = 2
    /\ fullMatches(routes, reqs[k]) # {}

----------------------------------------------------------------------------
(* C7 *)

\* C7: a route is registered with the global chain of that moment followed
\* by its own handlers, and the chain of a registered route never changes
\* afterwards, whatever use() is called later.
C7_ChainFixedAtRegistration ==
  [][/\ Len(routes') = Len(routes) + 1 =>
          LET new == routes'[Len(routes')].chain IN
          /\ Len(new) > Len(chain)
          /\ SubSeq(new, 1, Len(chain)) = chain
     /\ \A j \in 1..Len(routes) :
          (j <= Len(routes') /\ routes'[j].id = routes[j].id)
          => routes'[j].chain = routes[j].chain]_vars

----------------------------------------------------------------------------
(* C8 *)

\* C8: a registration, by string or by options, adds the new route's method
\* to the methods of exactly the registered routes with the same path
\* template, so that routes with the same path template report the same
\* methods.
C8_BackPatch ==
  [][Len(routes') = Len(routes) + 1 =>
       LET new == routes'[Len(routes')] IN
       /\ \A j \in 1..Len(routes) :
            toSet(routes'[j].methods) =
              IF routes[j].url = new.url
              THEN toSet(routes[j].methods) \cup {new.method}
              ELSE toSet(routes[j].methods)
       /\ \A j, l \in 1..Len(routes') :
            routes'[j].url = routes'[l].url
            => toSet(routes'[j].methods) = toSet(routes'[l].methods)]_vars

----------------------------------------------------------------------------
(* C9 *)

\* C9: of two rm calls in a row with the same name, the first of which
\* removed a route, the second returns false.
C9_RemoveTwice ==
  ( /\ Len(rmLog) = 2
    /\ rmLog[1].arg.name # None
    /\ rmLog[1].arg = rmLog[2].arg
    /\ rmLog[1].result )
  => ~rmLog[2].result

----------------------------------------------------------------------------
(* C10 *)

\* C10: a request never has more than one response write, and a request
\* whose processing is over has exactly one.
C10_ExactlyOneWrite ==
  \A k \in DOMAIN reqs :
    /\ Len(reqs[k].res.sent) <= 1
    /\ reqs[k].pc = "done" => Len(reqs[k].res.sent) = 1

----------------------------------------------------------------------------
(* C11 *)

DefaultHandlers == {defaultHandler(e) : e \in Events}

\* What the default responder of an event writes for request q
defaultResponse(event, q) ==
  CASE event = "NotFound" -> "ResourceNotFoundError"
    [] event = "MethodNotAllowed" -> IF q.method = "OPTIONS" THEN "200" ELSE "BadMethodError"
    [] OTHER -> "InvalidVersionError"

\* C11: at a fallback outcome the default responder of the event runs if
\* and only if no listener is registered for the event at that moment, and
\* then it alone answers; with listeners registered they alone answer; and
\* no default responder is registered once the event has been delivered.
C11_DefaultOrOverride ==
  [][\A k \in DOMAIN reqs' : (Resolving(k) /\ reqs'[k].route = 0) =>
       LET q == reqs'[k]
           e == q.emitted[1]
           before == listeners[e.event]
       IN /\ Len(q.emitted) = 1
          /\ IF before = <<>>
             THEN /\ e.heard = <<defaultHandler(e.event)>>
                  /\ q.res.sent = <<defaultResponse(e.event, q)>>
             ELSE /\ e.heard = [j \in 1..Len(before) |-> before[j].fn]
                  /\ \A j \in 1..Len(e.heard) : e.heard[j] \notin DefaultHandlers
                  /\ q.res.sent = [j \in 1..Len(before) |-> "Override"]
          /\ \A ev \in Events : \A j \in 1..Len(listeners'[ev]) :
               listeners'[ev][j].fn \notin DefaultHandlers
          /\ listeners' = listeners]_vars

\* one unmatched request was answered by the default responder, and after
\* an override was registered another request with the same outcome was
\* answered by the override alone
C11_Witness ==
  \E k, l \in DOMAIN reqs :
    /\ k # l
    /\ Len(reqs[k].emitted) = 1
    /\ Len(reqs[l].emitted) = 1
    /\ reqs[k].emitted[1].event = reqs[l].emitted[1].event
    /\ reqs[k].emitted[1].heard = <<defaultHandler(reqs[k].emitted[1].event)>>
    /\ reqs[l].emitted[1].heard = <<"override">>
    /\ reqs[l].res.sent = <<"Override">>

----------------------------------------------------------------------------
(* C12 *)

\* C12: the step that resolves a request, to a route or to a fallback
\* event, leaves the route table as it was: the same routes in the same
\* order, with the same method, version and methods.
C12_ResolveKeepsTable ==
  [][\A k \in DOMAIN reqs' : Resolving(k) =>
       /\ Len(routes') = Len(routes)
       /\ \A j \in 1..Len(routes) :
            /\ routes'[j].id = routes[j].id
            /\ routes'[j].method = routes[j].method
            /\ routes'[j].version = routes[j].version
            /\ routes'[j].methods = routes[j].methods
            /\ routes'[j] = routes[j]]_vars

\* a request was resolved against a table of three routes one of which has
\* two methods recorded and does not match the request's method
C12_Witness ==
  \E k \in DOMAIN reqs :
    /\ reqs[k].resolved
    /\ Len(routes) = 3
    /\ \E j \in 1..Len(routes) :
         /\ Len(routes[j].methods) = 2
         /\ PathMatch(routes[j], reqs[k])
         /\ ~matchesMethod(routes[j], reqs[k])

----------------------------------------------------------------------------
(* C13 *)

\* C13: req.params is set exactly for the requests a route was returned
\* for, and then to the parameters of the returned route's own match of the
\* request's path; a request resolved to a fallback event has none.
C13_ParamsOfWinner ==
  [][\A k \in DOMAIN reqs' :
       LET q == reqs'[k] IN
       /\ q.params # None <=> q.route # 0
       /\ Resolving(k) =>
            IF fullMatches(routes, q) # {}
            THEN \E j \in fullMatches(routes, q) :
                   /\ routes[j].id = q.route
                   /\ q.params = Some(match(routes[j].url, q.url[1]).params)
            ELSE q.params = None /\ Len(q.emitted) = 1]_vars

\* a request bound the parameters of the route returned for it, while an
\* earlier route matched its path with other parameters and was passed over
C13_Witness ==
  \E k \in DOMAIN reqs : \E j, l \in 1..Len(routes) :
    /\ j < l
    /\ reqs[k].route = routes[l].id
    /\ PathMatch(routes[j], reqs[k])
    /\ ~FullMatch(routes[j], reqs[k])
    /\ reqs[k].params = Some(matchesUrl(routes[l], reqs[k]).params)
    /\ matchesUrl(routes[j], reqs[k]).params # matchesUrl(routes[l], reqs[k]).params

----------------------------------------------------------------------------
(* C14 *)

\* C14: a request takes the pre-chain as it is when the request arrives;
\* its handlers are started one at a time in that order, the next one only
\* when the one before it has called back without an error; the request is
\* resolved only when all of them have done so, and at once on arrival when
\* the pre-chain is empty.
C14_PreChainOrder ==
  [][\A k \in DOMAIN reqs' :
       LET n == reqs'[k] IN
       /\ k \notin DOMAIN reqs =>
            /\ n.before = preChain
            /\ IF preChain = <<>>
               THEN n.resolved /\ n.preRan = 0
               ELSE ~n.resolved /\ n.pc = "pre" /\ n.preRan = 1
       /\ k \in DOMAIN reqs =>
            LET q == reqs[k] IN
            /\ n.before = q.before
            /\ n.preRan # q.preRan =>
                 /\ q.pc = "pre"
                 /\ Behaviour(q.before[q.i]) = "next"
                 /\ n.pc = "pre"
                 /\ n.preRan = q.preRan + 1
            /\ Resolving(k) => q.pc = "pre" /\ q.i = Len(q.before)
       /\ n.pc = "pre" => n.i = n.preRan /\ n.i \in 1..Len(n.before)
       /\ Resolving(k) =>
            /\ n.preRan = Len(n.before)
            /\ \A j \in 1..Len(n.before) : Behaviour(n.before[j]) = "next"]_vars

\* a request was resolved after both handlers of its pre-chain had run
C14_Witness ==
  \E k \in DOMAIN reqs :
    /\ reqs[k].resolved
    /\ Len(reqs[k].before) = 2
    /\ reqs[k].preRan = 2

----------------------------------------------------------------------------
(* C15 *)

\* The table rs without its j-th route
without(rs, j) == [l \in 1..(Len(rs) - 1) |-> IF l < j THEN rs[l] ELSE rs[l + 1]]

\* A step of rm: no route object is created and the call ends normally
\* (the entry logged last is the entry of this call).
rmStep == nextId' = nextId /\ threw' = "none" /\ rmLog' # <<>>

\* C15: rm(arg) returning true has removed exactly the first route of the
\* table that has the name arg or is the route arg, and the other routes
\* stand as before in the same order; rm(arg) returning false found no such
\* route and left the table as it was.
C15_RemoveFirst ==
  [][rmStep =>
       LET e == rmLog'[Len(rmLog')]
           hit == {j \in 1..Len(routes) :
                     \/ e.arg.name # None /\ routes[j].name = e.arg.name[1]
                     \/ routes[j].id = e.arg.route}
       IN IF e.result
          THEN /\ hit # {}
               /\ Len(routes') = Len(routes) - 1
               /\ \E j \in hit : /\ \A l \in hit : j <= l
                                  /\ routes' = without(routes, j)
          ELSE /\ hit = {}
               /\ routes' = routes]_vars

\* rm by name returned true and removed the first of two routes of that
\* name: the second is still in the table, after a route registered before
\* both
C15_Witness ==
  /\ rmLog # <<>>
  /\ rmLog[Len(rmLog)].result
  /\ rmLog[Len(rmLog)].arg.name # None
  /\ Len(routes) = 2
  /\ routes[1].name # rmLog[Len(rmLog)].arg.name[1]
  /\ routes[2].name = rmLog[Len(rmLog)].arg.name[1]
  /\ routes[1].id = 1
  /\ routes[2].id = 3

----------------------------------------------------------------------------
(* C16 *)

\* C16: no two routes of the route table have the same name.
C16_UniqueNames ==
  \A j, l \in 1..Len(routes) : routes[j].name = routes[l].name => j = l

----------------------------------------------------------------------------
(* C17 *)

\* One level of arrays of s opened in place
RECURSIVE splice(_)
splice(s) ==
  IF s = <<>> THEN <<>>
  ELSE (IF Head(s).k = "arr" THEN Head(s).a ELSE <<Head(s)>>) \o splice(Tail(s))

\* The elements of args that are not arrays, at any depth, from left to
\* right: the arrays are opened level by level until none is left.
RECURSIVE leaves(_)
leaves(args) ==
  IF \E j \in 1..Len(args) : args[j].k = "arr" THEN leaves(splice(args))
  ELSE [j \in 1..Len(args) |-> args[j].h]

\* C17: argsToChain turns its arguments into the list of the supplied
\* handlers, each once, from left to right with nested arrays opened in
\* place; use() appends that list to the global chain (and to the chain of
\* every registered route), pre() appends it to the pre-chain, and a
\* registration builds the route's chain as the global chain followed by
\* it; what a chain held before stays in front in the same order.
C17_FlattenInOrder ==
  [][\A a \in ArgInputs :
       /\ argsToChain(a) = leaves(a)
       /\ use(a) => /\ chain' = chain \o leaves(a)
                    /\ \A j \in 1..Len(routes) :
                         routes'[j].chain = routes[j].chain \o leaves(a)
       /\ pre(a) => preChain' = preChain \o leaves(a)
       /\ (a # <<>> /\ verb("GET", StringOption(<<"x", "*">>), a)) =>
            /\ Len(routes') = Len(routes) + 1
            /\ routes'[Len(routes')].chain = chain \o leaves(a)]_vars

\* a route registered with the handlers [f, [g]], h after a use(): its
\* chain is the global chain, then f, g, h
C17_Witness ==
  \E j \in 1..Len(routes) :
    /\ Len(routes[j].chain) = 4
    /\ SubSeq(routes[j].chain, 2, 4) = <<"hNext", "hErr", "hSend">>
    /\ chain = <<routes[j].chain[1]>>

----------------------------------------------------------------------------
(* C18 *)

\* C18: the global chain, the pre-chain and the chain of every route hold
\* functions only (and a call handing in anything else ends in a TypeError).
C18_OnlyFunctions ==
  /\ \A j \in 1..Len(chain) : chain[j] \in Handlers
  /\ \A j \in 1..Len(preChain) : preChain[j] \in Handlers
  /\ \A r \in 1..Len(routes) : \A j \in 1..Len(routes[r].chain) :
       routes[r].chain[j] \in Handlers

----------------------------------------------------------------------------
(* C19 *)

\* C19: a registration adds a route whose chain holds, after the global
\* chain of that moment, at least one handler of the route's own.
C19_OwnHandler ==
  [][Len(routes') = Len(routes) + 1 =>
       Len(routes'[Len(routes')].chain) > Len(chain)]_vars

----------------------------------------------------------------------------
(* C20 *)

\* C20: the allowed methods and the version values recorded for a resolved
\* request are the same after every later step: a registration, a removal,
\* the arrival and resolve of another request, a handler of any request.
C20_RequestStateOwned ==
  [][\A k \in DOMAIN reqs :
       reqs[k].resolved =>
         /\ reqs'[k].res.methods = reqs[k].res.methods
         /\ reqs'[k].res.version = reqs[k].res.version
         /\ reqs'[k].res.versions = reqs[k].res.versions]_vars

====
